---- MODULE Spec2Model ----
(***************************************************************************)
(* Job lifecycle of the web archive tool (src/main.py): the job store, the *)
(* HTTP handlers that write it, the crawl launcher with its container      *)
(* supervisor, and the Archive Publisher.                                  *)
(*                                                                         *)
(* Scheduling.  The server is one asyncio event loop.  A coroutine gives   *)
(* up the loop only where it really suspends: asyncio.sleep, and the gap   *)
(* between a response and the background task the handler registered.      *)
(* SQLiteJobManager's methods are "async def" but contain no suspension,   *)
(* and the docker / storage SDK calls are blocking calls, so everything    *)
(* between two such points runs without interleaving of other coroutines.  *)
(* The model keeps every store write as a step of its own and lets a task  *)
(* that is between two suspension points be the only coroutine that moves  *)
(* (Idle).  The crawl container is an external process: it moves at any    *)
(* time.                                                                   *)
(***************************************************************************)
EXTENDS Integers, Sequences, FiniteSets, TLC

(***************************************************************************)
(* Bounds of the model.                                                    *)
(***************************************************************************)
MaxJobs == 2    \* job ids handed out by create_archive
MaxTasks == 3   \* background tasks (crawl launches and uploads) ever registered
MaxLoad == 4    \* job ids plus background tasks: two jobs with one task each, or
                \* one job with three tasks
MaxPages == 1   \* "Page Finished" lines seen in one poll of the logs
MaxFileSize == 3  \* bytes of the file that serve_archive is asked for
MaxHeader == 4  \* tokens of a Range header
MaxDigit == 3   \* greatest decimal digit written in a Range header

JobIds == 1..MaxJobs

VARIABLES
    docker_client,  \* TRUE iff the Docker client was created at import time
    gcs_env,        \* TRUE iff GOOGLE_APPLICATION_CREDENTIALS or GCS_BUCKET is set
    db,             \* table archive_jobs: job_id -> row
    next_id,        \* number of job ids generated so far (uuid4 never repeats)
    creating,       \* create_archive calls suspended in asyncio.sleep(0.5)
    tasks,          \* background tasks, in the order they were registered; a task
                    \* that has returned and left nothing behind is dropped
    spawned,        \* number of background tasks registered so far
    archives,       \* job ids with a directory ARCHIVE_DIR/<job_id>/ holding the artifact
    blobs,          \* object names present in the bucket
    delete_results, \* job_id -> the results of the delete_archive call that removed it
    archive_file,   \* the file ARCHIVE_DIR/<job_id>/<filename> that serve_archive is asked for
    serve_request,  \* method and Range header of the last request to serve_archive
    serve_response  \* what serve_archive answered to it

vars == <<docker_client, gcs_env, db, next_id, creating, tasks, spawned, archives, blobs, delete_results,
          archive_file, serve_request, serve_response>>

\* what the job lifecycle never touches
serve_vars == <<archive_file, serve_request, serve_response>>

NULL == "NULL"

\* datetime.now().isoformat(): some non-null timestamp
Now == "ts"

ActiveStatuses == {"started", "crawling", "preparing", "uploading_gcs"}
TerminalStatuses == {"completed", "failed", "stopped", "gcs_upload_failed"}

\* job_id[:8]
Prefix8(job_id) == ToString(job_id)

\* filename = f"{job_id[:8]}.wacz"
Filename(job_id) == Prefix8(job_id) \o ".wacz"

\* local_path = f"{job_id}/{filename}"
LocalPath(job_id) == ToString(job_id) \o "/" \o Filename(job_id)

\* blob_name = f"archives/{simple_filename}"
BlobName(job_id) == "archives/" \o Filename(job_id)

\* blob.public_url
PublicUrl(job_id) == "https://storage.googleapis.com/" \o BlobName(job_id)

\* str(request.url)
UrlOf(job_id) == "https://example.com/" \o ToString(job_id)

(***************************************************************************)
(* SQLiteJobManager                                                        *)
(***************************************************************************)
\* INSERT INTO archive_jobs: the columns the statement leaves out take the
\* table's defaults (gcs_url, gcs_error NULL; pages_archived 0; current_depth 1)
create_job(store, job_data) ==
    [j \in DOMAIN store \cup {job_data.job_id} |->
        IF j = job_data.job_id
        THEN [url |-> job_data.url,
              status |-> job_data.status,
              progress |-> job_data.progress,
              created_at |-> job_data.created_at,
              completed_at |-> job_data.completed_at,
              archive_path |-> job_data.archive_path,
              local_path |-> job_data.local_path,
              crawler_type |-> job_data.crawler_type,
              crawler_reason |-> job_data.crawler_reason,
              complexity_score |-> job_data.complexity_score,
              gcs_url |-> NULL,
              gcs_error |-> NULL,
              pages_archived |-> 0,
              current_depth |-> 1]
        ELSE store[j]]

\* an UPDATE without its WHERE clause
update_job_all(store, job_id, updates) ==
    [j \in DOMAIN store |->
        [f \in DOMAIN store[j] |->
            IF f \in DOMAIN updates THEN updates[f] ELSE store[j][f]]]

\* UPDATE archive_jobs SET ... WHERE job_id = ?  (no row: nothing happens)
update_job(store, job_id, updates) ==
    [j \in DOMAIN store |->
        IF j = job_id
        THEN [f \in DOMAIN store[j] |->
                 IF f \in DOMAIN updates THEN updates[f] ELSE store[j][f]]
        ELSE store[j]]

\* dict(zip(columns, row)): the row of job_id as the dictionary the store hands
\* out, job_id being one of its columns
JobDict(store, job_id) ==
    [f \in DOMAIN store[job_id] \cup {"job_id"} |->
        IF f = "job_id" THEN ToString(job_id) ELSE store[job_id][f]]

\* get_all_jobs restricted to the completed jobs
get_all_jobs_completed(store) ==
    {JobDict(store, j) : j \in {k \in DOMAIN store : store[k].status = "completed"}}

\* SELECT * FROM archive_jobs ORDER BY created_at DESC (the order of the list is
\* left out: the rows as a set)
get_all_jobs(store) == {JobDict(store, j) : j \in DOMAIN store}

\* SELECT * ... WHERE job_id = ?  (a row or None)
HasJob(store, job_id) == job_id \in DOMAIN store

\* DELETE FROM archive_jobs WHERE job_id = ?
db_delete_job(store, job_id) ==
    [j \in DOMAIN store \ {job_id} |-> store[j]]

(***************************************************************************)
(* Background tasks.  A crawl task is run_browsertrix_crawler followed by  *)
(* the supervisor it spawns; an upload task is upload_archive_to_gcs.      *)
(***************************************************************************)
NewCrawlTask(job_id, url) ==
    [kind |-> "crawl", job |-> job_id, url |-> url, path |-> NULL,
     pc |-> "pending", cstatus |-> "none", exit_code |-> 0,
     wacz |-> FALSE, temp_dir |-> FALSE, pages |-> 0]

NewUploadTask(job_id, local_path) ==
    [kind |-> "upload", job |-> job_id, url |-> NULL, path |-> local_path,
     pc |-> "pending", cstatus |-> "none", exit_code |-> 0,
     wacz |-> FALSE, temp_dir |-> FALSE, pages |-> 0]

\* the places where a task is suspended and other coroutines may run
YieldPcs == {"pending", "s_sleep0", "s_sleep", "done"}

\* no coroutine is between two suspension points
Idle == \A t \in DOMAIN tasks : tasks[t].pc \in YieldPcs

\* room for one more background task
TaskRoom ==
    /\ spawned + Cardinality(creating) < MaxTasks
    /\ next_id + spawned + Cardinality(creating) < MaxLoad

\* room for one more job and its crawl launch
JobRoom ==
    /\ next_id < MaxJobs
    /\ spawned + Cardinality(creating) < MaxTasks
    /\ next_id + spawned + Cardinality(creating) + 1 < MaxLoad

(***************************************************************************)
(* Initial state: a fresh database, nothing running.                       *)
(***************************************************************************)
Init ==
    /\ docker_client \in BOOLEAN
    /\ gcs_env \in BOOLEAN
    /\ db = <<>>
    /\ next_id = 0
    /\ creating = {}
    /\ tasks = <<>>
    /\ spawned = 0
    /\ archives = {}
    /\ blobs = {}
    /\ delete_results = <<>>
    /\ archive_file = [exists |-> FALSE, content |-> <<>>]
    /\ serve_request = [method |-> "NONE", range |-> <<>>]
    /\ serve_response =
          [status_code |-> 0, content_length |-> <<>>,
           content_range |-> [kind |-> "absent", first |-> 0, last |-> 0, size |-> 0],
           body |-> <<>>]


(***************************************************************************)
(* The HTTP handlers.  Each one reads the row and answers with a status    *)
(* code that depends on the store alone (<handler>_code); a request that   *)
(* is answered with an error changes nothing.                              *)
(***************************************************************************)

(***************************************************************************)
(* POST /api/archive                                                       *)
(***************************************************************************)
\* create_archive inserting the job as already crawling
JobDataCrawling(job_id, url) ==
    [job_id |-> job_id,
     url |-> url,
     status |-> "crawling",
     progress |-> 10,
     created_at |-> Now,
     completed_at |-> NULL,
     archive_path |-> NULL,
     local_path |-> NULL,
     crawler_type |-> "browsertrix",
     crawler_reason |-> "High-quality web archiving",
     complexity_score |-> 1,
     pages_archived |-> 0,
     current_depth |-> 1]

\* job_data of create_archive
JobData(job_id, url) ==
    [job_id |-> job_id,
     url |-> url,
     status |-> "started",
     progress |-> 0,
     created_at |-> Now,
     completed_at |-> NULL,
     archive_path |-> NULL,
     local_path |-> NULL,
     crawler_type |-> "browsertrix",
     crawler_reason |-> "High-quality web archiving",
     complexity_score |-> 1,
     pages_archived |-> 0,
     current_depth |-> 1]

\* create_archive without the check of the Docker client
create_archive_code_unchecked == IF docker_client THEN 200 ELSE 200

create_archive_code == IF ~docker_client THEN 503 ELSE 200

\* create_archive up to its asyncio.sleep(0.5): the 503 check and the insert
create_archive ==
    /\ Idle
    /\ IF create_archive_code # 200
       THEN UNCHANGED <<db, next_id, creating>>
       ELSE /\ JobRoom
            /\ db' = create_job(db, JobData(next_id + 1, UrlOf(next_id + 1)))
            /\ next_id' = next_id + 1
            /\ creating' = creating \cup {next_id + 1}
    /\ UNCHANGED <<serve_vars, docker_client, gcs_env, tasks, spawned, archives, blobs, delete_results>>

\* the body of the response of create_archive
create_archive_response(job_id) ==
    [job_id |-> job_id,
     status |-> "started",
     crawler_type |-> "browsertrix",
     reason |-> "High-quality web archiving"]

\* create_archive after the sleep: background_tasks.add_task, then the response
\* {job_id, status: started}
create_archive_resume(job_id) ==
    /\ Idle
    /\ job_id \in creating
    /\ creating' = creating \ {job_id}
    /\ tasks' = Append(tasks, NewCrawlTask(job_id, UrlOf(job_id)))
    /\ spawned' = spawned + 1
    /\ UNCHANGED <<serve_vars, docker_client, gcs_env, db, next_id, archives, blobs, delete_results>>

(***************************************************************************)
(* POST /api/retry/{job_id}                                                *)
(***************************************************************************)
\* retry_archive without the reset of completed_at
RetryUpdatesKeepCompletion ==
    [status |-> "started",
     progress |-> 0,
     created_at |-> Now,
     archive_path |-> NULL,
     local_path |-> NULL,
     crawler_type |-> "browsertrix",
     crawler_reason |-> "Professional web archiving with browsertrix-crawler"]

\* retry_archive clearing the remote URL as well
RetryUpdatesClearUrl ==
    [status |-> "started",
     progress |-> 0,
     created_at |-> Now,
     completed_at |-> NULL,
     archive_path |-> NULL,
     local_path |-> NULL,
     gcs_url |-> NULL,
     crawler_type |-> "browsertrix",
     crawler_reason |-> "Professional web archiving with browsertrix-crawler"]

\* retry_archive stamping the retry as a completion
RetryUpdatesStamped ==
    [status |-> "started",
     progress |-> 0,
     created_at |-> Now,
     completed_at |-> Now,
     archive_path |-> NULL,
     local_path |-> NULL,
     crawler_type |-> "browsertrix",
     crawler_reason |-> "Professional web archiving with browsertrix-crawler"]

\* the update retry_archive writes
RetryUpdates ==
    [status |-> "started",
     progress |-> 0,
     created_at |-> Now,
     completed_at |-> NULL,
     archive_path |-> NULL,
     local_path |-> NULL,
     crawler_type |-> "browsertrix",
     crawler_reason |-> "Professional web archiving with browsertrix-crawler"]

\* the crawl launches retry_archive registers
RetryTasks(job_id, url) == <<NewCrawlTask(job_id, url)>>

\* retry_archive has no check of the job's status
retry_archive_code(store, job_id) ==
    IF ~docker_client THEN 503
    ELSE IF ~HasJob(store, job_id) THEN 404
    ELSE 200

retry_archive(job_id) ==
    /\ Idle
    /\ IF retry_archive_code(db, job_id) # 200
       THEN UNCHANGED <<db, tasks, spawned>>
       ELSE /\ TaskRoom
            /\ db' = update_job(db, job_id, RetryUpdates)
            /\ tasks' = tasks \o RetryTasks(job_id, db[job_id].url)
            /\ spawned' = spawned + Len(RetryTasks(job_id, db[job_id].url))
    /\ UNCHANGED <<serve_vars, docker_client, gcs_env, next_id, creating, archives, blobs, delete_results>>

(***************************************************************************)
(* POST /api/stop/{job_id}                                                 *)
(***************************************************************************)
\* the statuses stop_job accepts
StopStatuses == {"started", "crawling", "preparing", "uploading_gcs"}

\* stop_job without the completion time
StopUpdatesNoTimestamp == [status |-> "stopped"]

\* the update stop_job writes
StopUpdates == [status |-> "stopped", completed_at |-> Now]

\* stop_job answering 400 for a job it does not find
stop_job_code_lenient(store, job_id) ==
    IF ~HasJob(store, job_id) THEN 400
    ELSE IF store[job_id].status \notin StopStatuses THEN 400
    ELSE 200

stop_job_code(store, job_id) ==
    IF ~HasJob(store, job_id) THEN 404
    ELSE IF store[job_id].status \notin StopStatuses THEN 400
    ELSE 200

stop_job(job_id) ==
    /\ Idle
    /\ IF stop_job_code(db, job_id) # 200
       THEN UNCHANGED db
       ELSE db' = update_job(db, job_id, StopUpdates)
    /\ UNCHANGED <<serve_vars, docker_client, gcs_env, next_id, creating, tasks, spawned, archives, blobs,
                   delete_results>>

(***************************************************************************)
(* DELETE /api/delete/{job_id}                                             *)
(***************************************************************************)
\* the statuses delete_job accepts
DeleteJobStatuses == {"failed"}

delete_job_code(store, job_id) ==
    IF ~HasJob(store, job_id) THEN 404
    ELSE IF store[job_id].status \notin DeleteJobStatuses THEN 400
    ELSE 200

delete_job(job_id) ==
    /\ Idle
    /\ IF delete_job_code(db, job_id) # 200
       THEN UNCHANGED db
       ELSE db' = db_delete_job(db, job_id)
    /\ UNCHANGED <<serve_vars, docker_client, gcs_env, next_id, creating, tasks, spawned, archives, blobs,
                   delete_results>>

(***************************************************************************)
(* DELETE /api/delete-archive/{job_id}                                     *)
(***************************************************************************)
\* delete_archive with a status check that lets a started job through
DeleteArchiveStatusesLoose ==
    {"completed", "failed", "gcs_upload_failed", "stopped", "started"}

\* the statuses delete_archive accepts
DeleteArchiveStatuses == {"completed", "failed", "gcs_upload_failed", "stopped"}

delete_archive_code(store, job_id) ==
    IF ~HasJob(store, job_id) THEN 404
    ELSE IF store[job_id].status \notin DeleteArchiveStatuses THEN 400
    ELSE 200

\* os.path.dirname(os.path.join("archives", local_path)): the job directories
\* that shutil.rmtree removes
JobDirectory(local_path) == {j \in JobIds : LocalPath(j) = local_path}

\* the object that blob.delete() removes, from the path of gcs_url
BlobOfUrl(gcs_url) == {BlobName(j) : j \in {k \in JobIds : PublicUrl(k) = gcs_url}}

\* steps 1 and 2 of delete_archive; local_error, gcs_error: removing the
\* directory / the object raises.  results["local_file"] is set only inside the
\* branch for a non-null local_path.
DeleteResults(row, local_error, gcs_error) ==
    [database |-> FALSE,
     local_file |-> row.local_path # NULL /\ ~local_error,
     gcs_file |-> row.gcs_url = NULL \/ ~gcs_error,
     errors |-> (IF row.local_path # NULL /\ local_error THEN 1 ELSE 0)
                  + (IF row.gcs_url # NULL /\ gcs_error THEN 1 ELSE 0)]

\* delete_archive that gives up when an artifact removal raised
DeleteRowIfClean(store, job_id, results) ==
    IF results.errors = 0 THEN db_delete_job(store, job_id) ELSE store

\* step 3 of delete_archive: the row is deleted whatever steps 1 and 2 did
DeleteRow(store, job_id, results) == db_delete_job(store, job_id)

\* success = results["database"] and results["local_file"] and results["gcs_file"]
DeleteSuccess(results) == results.database /\ results.local_file /\ results.gcs_file

delete_archive(job_id, local_error, gcs_error) ==
    /\ Idle
    /\ IF delete_archive_code(db, job_id) # 200
       THEN UNCHANGED <<db, archives, blobs, delete_results>>
       ELSE LET row == db[job_id]
                results == DeleteResults(row, local_error, gcs_error)
            IN  /\ archives' = IF row.local_path # NULL /\ ~local_error
                               THEN archives \ JobDirectory(row.local_path)
                               ELSE archives
                /\ blobs' = IF row.gcs_url # NULL /\ ~gcs_error
                            THEN blobs \ BlobOfUrl(row.gcs_url)
                            ELSE blobs
                /\ db' = DeleteRow(db, job_id, results)
                /\ delete_results' =
                       [j \in DOMAIN delete_results \cup {job_id} |->
                           IF j = job_id
                           THEN [results EXCEPT !.database = ~HasJob(db', job_id)]
                           ELSE delete_results[j]]
    /\ UNCHANGED <<serve_vars, docker_client, gcs_env, next_id, creating, tasks, spawned>>

(***************************************************************************)
(* POST /api/upload-gcs/{job_id}                                           *)
(***************************************************************************)
\* upload_to_gcs accepting completed jobs only
UploadStatusesCompletedOnly == {"completed"}

\* the statuses upload_to_gcs accepts
UploadStatuses == {"completed", "gcs_upload_failed"}

\* upload_to_gcs without the check of gcs_url
AlreadyUploadedIgnored(row) == FALSE

\* if existing_job.get("gcs_url")
AlreadyUploaded(row) == row.gcs_url # NULL

\* upload_to_gcs without the check of local_path
NoLocalFileIgnored(row) == FALSE

\* if not existing_job.get("local_path")
NoLocalFile(row) == row.local_path = NULL

upload_to_gcs_code(store, job_id) ==
    IF ~HasJob(store, job_id) THEN 404
    ELSE IF store[job_id].status \notin UploadStatuses THEN 400
    ELSE IF AlreadyUploaded(store[job_id]) THEN 400
    ELSE IF NoLocalFile(store[job_id]) THEN 400
    ELSE IF ~gcs_env THEN 503
    ELSE 200

upload_to_gcs(job_id) ==
    /\ Idle
    /\ IF upload_to_gcs_code(db, job_id) # 200
       THEN UNCHANGED <<tasks, spawned>>
       ELSE /\ TaskRoom
            /\ tasks' = Append(tasks, NewUploadTask(job_id, db[job_id].local_path))
            /\ spawned' = spawned + 1
    /\ UNCHANGED <<serve_vars, docker_client, gcs_env, db, next_id, creating, archives, blobs,
                   delete_results>>

(***************************************************************************)
(* GET /api/progress: the Status Broadcaster.  Each turn of event_stream   *)
(* reads the store and yields one message; it keeps nothing from one turn  *)
(* to the next and does not suspend between the read and the yield, so a   *)
(* message is a function of the store at the time of the poll.             *)
(***************************************************************************)
\* Python truth of a column value: None and the empty string are false
Truthy(value) == value # NULL /\ value # ""

\* valid_jobs = [job for job in jobs if job and job.get('job_id') and
\*               job.get('url') and job.get('status')]
valid_jobs(jobs) ==
    {job \in jobs : Truthy(job.job_id) /\ Truthy(job.url) /\ Truthy(job.status)}

\* the message one turn of event_stream yields for the store as it is
event_stream(store) == [jobs |-> valid_jobs(get_all_jobs(store))]

(***************************************************************************)
(* run_browsertrix_crawler: the crawl launcher                             *)
(***************************************************************************)
IsAt(t, kind, pc) ==
    /\ t \in DOMAIN tasks
    /\ tasks[t].kind = kind
    /\ tasks[t].pc = pc

Goto(t, pc) == [tasks EXCEPT ![t].pc = pc]

RemoveAt(seq, t) == SubSeq(seq, 1, t - 1) \o SubSeq(seq, t + 1, Len(seq))

\* a task that has returned still matters while its container runs or its
\* scratch directory exists
Leftover(task) == task.cstatus = "running" \/ task.temp_dir

\* the coroutine returns: its local variables are gone
Returned(task) ==
    [task EXCEPT !.pc = "done", !.pages = 0, !.exit_code = 0, !.wacz = FALSE,
                 !.path = NULL]

\* task t returns, its scratch directory being left as temp_dir says
FinishWith(t, temp_dir) ==
    LET task == [Returned(tasks[t]) EXCEPT !.temp_dir = temp_dir]
    IN  IF Leftover(task) THEN [tasks EXCEPT ![t] = task] ELSE RemoveAt(tasks, t)

Finish(t) == FinishWith(t, tasks[t].temp_dir)

\* a failure that sets the status and leaves the progress alone
FailedUpdatesKeepProgress == [status |-> "failed"]

\* the update a failure writes
FailedUpdates == [status |-> "failed", progress |-> 0]

\* the task starts: status crawling
launch_begin(t) ==
    /\ Idle
    /\ IsAt(t, "crawl", "pending")
    /\ db' = update_job(db, tasks[t].job, [status |-> "crawling", progress |-> 10])
    /\ tasks' = Goto(t, "l_docker")
    /\ UNCHANGED <<serve_vars, docker_client, gcs_env, next_id, creating, spawned, archives, blobs, delete_results>>

\* the docker_client check, tempfile.mkdtemp, progress 20
launch_tempdir(t) ==
    /\ IsAt(t, "crawl", "l_docker")
    /\ IF ~docker_client
       THEN /\ tasks' = Goto(t, "l_except")
            /\ UNCHANGED db
       ELSE /\ tasks' = [tasks EXCEPT ![t].pc = "l_prepare", ![t].temp_dir = TRUE]
            /\ db' = update_job(db, tasks[t].job, [progress |-> 20])
    /\ UNCHANGED <<serve_vars, docker_client, gcs_env, next_id, creating, spawned, archives, blobs, delete_results>>

\* status preparing
launch_prepare(t) ==
    /\ IsAt(t, "crawl", "l_prepare")
    /\ db' = update_job(db, tasks[t].job, [status |-> "preparing", progress |-> 30])
    /\ tasks' = Goto(t, "l_run")
    /\ UNCHANGED <<serve_vars, docker_client, gcs_env, next_id, creating, spawned, archives, blobs, delete_results>>

\* docker_client.containers.run(detach=True); run_error: the call raises
launch_run(t, run_error) ==
    /\ IsAt(t, "crawl", "l_run")
    /\ IF run_error
       THEN /\ db' = update_job(db, tasks[t].job, FailedUpdates)
            /\ tasks' = Goto(t, "l_except")
       ELSE /\ tasks' = [tasks EXCEPT ![t].pc = "l_started", ![t].cstatus = "running"]
            /\ UNCHANGED db
    /\ UNCHANGED <<serve_vars, docker_client, gcs_env, next_id, creating, spawned, archives, blobs, delete_results>>

\* a launcher that waits for its container to stop before it goes on
launch_spawn_blocking(t) ==
    /\ IsAt(t, "crawl", "l_started")
    /\ tasks[t].cstatus # "running"
    /\ db' = update_job(db, tasks[t].job, [status |-> "crawling", progress |-> 10])
    /\ tasks' = Goto(t, "s_sleep0")
    /\ UNCHANGED <<serve_vars, docker_client, gcs_env, next_id, creating, spawned, archives, blobs, delete_results>>

\* status crawling again, asyncio.create_task(monitor_container_progress()), return
launch_spawn(t) ==
    /\ IsAt(t, "crawl", "l_started")
    /\ db' = update_job(db, tasks[t].job, [status |-> "crawling", progress |-> 10])
    /\ tasks' = Goto(t, "s_sleep0")
    /\ UNCHANGED <<serve_vars, docker_client, gcs_env, next_id, creating, spawned, archives, blobs, delete_results>>

\* the outer except of run_browsertrix_crawler
launch_except(t) ==
    /\ IsAt(t, "crawl", "l_except")
    /\ db' = update_job(db, tasks[t].job, FailedUpdates)
    /\ tasks' = Finish(t)
    /\ UNCHANGED <<serve_vars, docker_client, gcs_env, next_id, creating, spawned, archives, blobs, delete_results>>

(***************************************************************************)
(* The crawl container, an external process: it stops at a time of its     *)
(* own.  How it stopped (docker status, exit code, files left in /crawls)  *)
(* is read by the supervisor once each, and is chosen where it is read.    *)
(***************************************************************************)
container_exit(t) ==
    /\ t \in DOMAIN tasks
    /\ tasks[t].cstatus = "running"
    /\ LET task == [tasks[t] EXCEPT !.cstatus = "stopped"]
       IN  tasks' = IF task.pc = "done" /\ ~Leftover(task)
                    THEN RemoveAt(tasks, t)
                    ELSE [tasks EXCEPT ![t] = task]
    /\ UNCHANGED <<serve_vars, docker_client, gcs_env, db, next_id, creating, spawned, archives, blobs, delete_results>>

(***************************************************************************)
(* monitor_container_progress: the supervisor.  docker_error: the call to  *)
(* the docker daemon in this step raises.                                  *)
(***************************************************************************)
\* after the first asyncio.sleep(5): the first look at the container; status:
\* the docker status of a container that is not running ("dead" stands for
\* every status other than running and exited)
monitor_first_check(t, docker_error, status) ==
    /\ Idle
    /\ IsAt(t, "crawl", "s_sleep0")
    /\ IF docker_error
       THEN /\ db' = update_job(db, tasks[t].job, FailedUpdates)
            /\ tasks' = Finish(t)
       ELSE IF tasks[t].cstatus # "running" /\ status = "exited"
       THEN /\ tasks' = Goto(t, "h_wait")
            /\ UNCHANGED db
       ELSE IF tasks[t].cstatus # "running"
       THEN /\ db' = update_job(db, tasks[t].job, FailedUpdates)
            /\ tasks' = Finish(t)
       ELSE /\ tasks' = Goto(t, "s_check")
            /\ UNCHANGED db
    /\ UNCHANGED <<serve_vars, docker_client, gcs_env, next_id, creating, spawned, archives, blobs, delete_results>>

\* top of the while loop: is the container still running
monitor_check(t, docker_error) ==
    /\ \/ IsAt(t, "crawl", "s_check")
       \/ IsAt(t, "crawl", "s_sleep") /\ Idle
    /\ tasks' = IF docker_error THEN Goto(t, "s_except")
                ELSE IF tasks[t].cstatus # "running" THEN Goto(t, "h_wait")
                ELSE Goto(t, "s_logs")
    /\ UNCHANGED <<serve_vars, docker_client, gcs_env, db, next_id, creating, spawned, archives, blobs, delete_results>>

Max(a, b) == IF a >= b THEN a ELSE b
\* a minimum that always takes its first argument
MinLeft(a, b) == a

Min(a, b) == IF a <= b THEN a ELSE b

\* logs(tail=50): the number of log lines one poll looks at
LogTail == 50

\* progress = min(10 + int(pages_archived * 2), 80)
CrawlProgress(pages_archived) == Min(10 + pages_archived * 2, 80)

\* the last 50 log lines; recent_pages: the "Page Finished" lines among them
\* (a line that is no JSON is skipped)
monitor_logs(t, docker_error, recent_pages) ==
    /\ IsAt(t, "crawl", "s_logs")
    /\ IF docker_error
       THEN /\ tasks' = Goto(t, "s_except")
            /\ UNCHANGED db
       ELSE IF recent_pages > 0
       THEN LET pages_archived == Max(tasks[t].pages, recent_pages)
            IN  /\ tasks' = [tasks EXCEPT ![t].pc = "s_sleep", ![t].pages = pages_archived]
                /\ db' = update_job(db, tasks[t].job,
                                    [progress |-> CrawlProgress(pages_archived),
                                     pages_archived |-> pages_archived,
                                     current_depth |-> 1])
       ELSE /\ tasks' = Goto(t, "s_sleep")
            /\ UNCHANGED db
    /\ UNCHANGED <<serve_vars, docker_client, gcs_env, next_id, creating, spawned, archives, blobs, delete_results>>

\* the except branch inside the loop: a second look at the container
monitor_except(t, docker_error) ==
    /\ IsAt(t, "crawl", "s_except")
    /\ IF docker_error \/ tasks[t].cstatus # "running"
       THEN /\ db' = update_job(db, tasks[t].job, FailedUpdates)
            /\ tasks' = Finish(t)
       ELSE /\ tasks' = Goto(t, "s_sleep")
            /\ UNCHANGED db
    /\ UNCHANGED <<serve_vars, docker_client, gcs_env, next_id, creating, spawned, archives, blobs, delete_results>>

(***************************************************************************)
(* handle_container_completion                                             *)
(***************************************************************************)
\* a successful crawl recorded without its completion time
CompletedUpdatesNoTimestamp(job_id, pages_archived, current_depth) ==
    [status |-> "completed",
     progress |-> 100,
     archive_path |-> Filename(job_id),
     local_path |-> LocalPath(job_id),
     pages_archived |-> pages_archived,
     current_depth |-> current_depth]

\* a successful crawl recorded without archive_path
CompletedUpdatesNoArchivePath(job_id, pages_archived, current_depth) ==
    [status |-> "completed",
     progress |-> 100,
     completed_at |-> Now,
     local_path |-> LocalPath(job_id),
     pages_archived |-> pages_archived,
     current_depth |-> current_depth]

\* the update a successful crawl writes
CompletedUpdates(job_id, pages_archived, current_depth) ==
    [status |-> "completed",
     progress |-> 100,
     completed_at |-> Now,
     archive_path |-> Filename(job_id),
     local_path |-> LocalPath(job_id),
     pages_archived |-> pages_archived,
     current_depth |-> current_depth]

\* handle_container_completion returning on a non-zero exit code without a write
ExitFailureSilent(store, job_id) == store

\* what handle_container_completion writes for a non-zero exit code
ExitFailure(store, job_id) == update_job(store, job_id, FailedUpdates)

\* handle_container_completion returning on a missing artifact without a write
NoArtifactSilent(store, job_id) == store

\* what handle_container_completion writes when os.walk finds no .wacz file
NoArtifact(store, job_id) == update_job(store, job_id, FailedUpdates)

\* container.wait(); exit_code: result['StatusCode'] of the stopped container
completion_wait(t, docker_error, exit_code) ==
    /\ IsAt(t, "crawl", "h_wait")
    /\ IF docker_error
       THEN /\ tasks' = Goto(t, "h_except")
            /\ UNCHANGED db
       ELSE IF exit_code # 0
       THEN /\ db' = ExitFailure(db, tasks[t].job)
            /\ tasks' = [tasks EXCEPT ![t].pc = "h_finally", ![t].exit_code = exit_code]
       ELSE /\ db' = update_job(db, tasks[t].job, [progress |-> 95])
            /\ tasks' = Goto(t, "h_find")
    /\ UNCHANGED <<serve_vars, docker_client, gcs_env, next_id, creating, spawned, archives, blobs, delete_results>>

\* the search for the .wacz file and storage_manager.save_binary_archive;
\* wacz: the container left a .wacz file under temp_dir; copy_error:
\* shutil.copy2 raises
completion_save(t, wacz, copy_error) ==
    /\ IsAt(t, "crawl", "h_find")
    /\ IF ~(wacz /\ tasks[t].temp_dir)
       THEN /\ db' = NoArtifact(db, tasks[t].job)
            /\ tasks' = Goto(t, "h_finally")
            /\ UNCHANGED archives
       ELSE IF copy_error
       THEN /\ tasks' = [tasks EXCEPT ![t].pc = "h_except", ![t].wacz = TRUE]
            /\ UNCHANGED <<db, archives>>
       ELSE /\ archives' = archives \cup {tasks[t].job}
            /\ tasks' = [tasks EXCEPT ![t].pc = "h_complete", ![t].wacz = TRUE]
            /\ UNCHANGED db
    /\ UNCHANGED <<serve_vars, docker_client, gcs_env, next_id, creating, spawned, blobs, delete_results>>

\* status completed
completion_complete(t) ==
    /\ IsAt(t, "crawl", "h_complete")
    /\ db' = update_job(db, tasks[t].job, CompletedUpdates(tasks[t].job, tasks[t].pages, 1))
    /\ tasks' = Goto(t, "h_finally")
    /\ UNCHANGED <<serve_vars, docker_client, gcs_env, next_id, creating, spawned, archives, blobs, delete_results>>

\* except Exception
completion_except(t) ==
    /\ IsAt(t, "crawl", "h_except")
    /\ db' = update_job(db, tasks[t].job, FailedUpdates)
    /\ tasks' = Goto(t, "h_finally")
    /\ UNCHANGED <<serve_vars, docker_client, gcs_env, next_id, creating, spawned, archives, blobs, delete_results>>

\* finally: shutil.rmtree(temp_dir), errors ignored
completion_finally(t, rmtree_error) ==
    /\ IsAt(t, "crawl", "h_finally")
    /\ tasks' = FinishWith(t, rmtree_error /\ tasks[t].temp_dir)
    /\ UNCHANGED <<serve_vars, docker_client, gcs_env, db, next_id, creating, spawned, archives, blobs, delete_results>>

(***************************************************************************)
(* upload_archive_to_gcs: the Archive Publisher                            *)
(***************************************************************************)
\* a successful upload that records the URL and leaves the status alone
UploadedUpdatesUrlOnly(job_id) == [gcs_url |-> PublicUrl(job_id)]

\* the update a successful upload writes
UploadedUpdates(job_id) == [status |-> "completed", gcs_url |-> PublicUrl(job_id)]

\* the update a failed upload writes; error_msg = str(e)
UploadFailedUpdates == [status |-> "gcs_upload_failed", gcs_error |-> "GCS upload failed"]

\* what the except branch of upload_archive_to_gcs writes
UploadFailure(store, job_id) == update_job(store, job_id, UploadFailedUpdates)

\* status uploading_gcs
upload_begin(t) ==
    /\ Idle
    /\ IsAt(t, "upload", "pending")
    /\ db' = update_job(db, tasks[t].job, [status |-> "uploading_gcs"])
    /\ tasks' = Goto(t, "u_client")
    /\ UNCHANGED <<serve_vars, docker_client, gcs_env, next_id, creating, spawned, archives, blobs, delete_results>>

\* the credentials check and storage.Client(); client_error: the client raises
upload_client(t, client_error) ==
    /\ IsAt(t, "upload", "u_client")
    /\ IF ~gcs_env \/ client_error
       THEN /\ tasks' = Goto(t, "u_except")
            /\ UNCHANGED db
       ELSE /\ db' = update_job(db, tasks[t].job, [progress |-> 50])
            /\ tasks' = Goto(t, "u_upload")
    /\ UNCHANGED <<serve_vars, docker_client, gcs_env, next_id, creating, spawned, archives, blobs, delete_results>>

\* blob.upload_from_filename(file_path); it raises when the file is gone or
\* the transfer fails (upload_error)
upload_file(t, upload_error) ==
    /\ IsAt(t, "upload", "u_upload")
    /\ IF upload_error \/ ~(JobDirectory(tasks[t].path) # {}
                            /\ JobDirectory(tasks[t].path) \subseteq archives)
       THEN /\ tasks' = Goto(t, "u_except")
            /\ UNCHANGED <<db, blobs>>
       ELSE /\ blobs' = blobs \cup {BlobName(tasks[t].job)}
            /\ db' = update_job(db, tasks[t].job, [progress |-> 90])
            /\ tasks' = Goto(t, "u_public")
    /\ UNCHANGED <<serve_vars, docker_client, gcs_env, next_id, creating, spawned, archives, delete_results>>

\* blob.make_public() and the final update; public_error: make_public raises
upload_public(t, public_error) ==
    /\ IsAt(t, "upload", "u_public")
    /\ IF public_error
       THEN /\ tasks' = Goto(t, "u_except")
            /\ UNCHANGED db
       ELSE /\ db' = update_job(db, tasks[t].job, UploadedUpdates(tasks[t].job))
            /\ tasks' = Finish(t)
    /\ UNCHANGED <<serve_vars, docker_client, gcs_env, next_id, creating, spawned, archives, blobs, delete_results>>

\* except Exception as e
upload_except(t) ==
    /\ IsAt(t, "upload", "u_except")
    /\ db' = UploadFailure(db, tasks[t].job)
    /\ tasks' = Finish(t)
    /\ UNCHANGED <<serve_vars, docker_client, gcs_env, next_id, creating, spawned, archives, blobs, delete_results>>

(***************************************************************************)
(* The system                                                              *)
(***************************************************************************)
TaskIds == 1..MaxTasks

Next ==
    \/ create_archive
    \/ \E j \in JobIds : create_archive_resume(j)
    \/ \E j \in JobIds : retry_archive(j)
    \/ \E j \in JobIds : stop_job(j)
    \/ \E j \in JobIds : delete_job(j)
    \/ \E j \in JobIds, le, ge \in BOOLEAN : delete_archive(j, le, ge)
    \/ \E j \in JobIds : upload_to_gcs(j)
    \/ \E t \in TaskIds : launch_begin(t)
    \/ \E t \in TaskIds : launch_tempdir(t)
    \/ \E t \in TaskIds : launch_prepare(t)
    \/ \E t \in TaskIds, e \in BOOLEAN : launch_run(t, e)
    \/ \E t \in TaskIds : launch_spawn(t)
    \/ \E t \in TaskIds : launch_except(t)
    \/ \E t \in TaskIds : container_exit(t)
    \/ \E t \in TaskIds, e \in BOOLEAN, s \in {"exited", "dead"} :
          monitor_first_check(t, e, s)
    \/ \E t \in TaskIds, e \in BOOLEAN : monitor_check(t, e)
    \/ \E t \in TaskIds, e \in BOOLEAN, n \in 0..MaxPages : monitor_logs(t, e, n)
    \/ \E t \in TaskIds, e \in BOOLEAN : monitor_except(t, e)
    \/ \E t \in TaskIds, e \in BOOLEAN, c \in {0, 1} : completion_wait(t, e, c)
    \/ \E t \in TaskIds, w, e \in BOOLEAN : completion_save(t, w, e)
    \/ \E t \in TaskIds : completion_complete(t)
    \/ \E t \in TaskIds : completion_except(t)
    \/ \E t \in TaskIds, e \in BOOLEAN : completion_finally(t, e)
    \/ \E t \in TaskIds : upload_begin(t)
    \/ \E t \in TaskIds, e \in BOOLEAN : upload_client(t, e)
    \/ \E t \in TaskIds, e \in BOOLEAN : upload_file(t, e)
    \/ \E t \in TaskIds, e \in BOOLEAN : upload_public(t, e)
    \/ \E t \in TaskIds : upload_except(t)

Spec == Init /\ [][Next]_vars

(***************************************************************************)
(* Fair scheduling: the event loop runs every coroutine that is ready, a   *)
(* sleeping coroutine wakes up, a blocking SDK call returns or raises, and *)
(* every crawl container stops at some time.  Requests are never owed.     *)
(***************************************************************************)
TaskStep(t) ==
    \/ launch_begin(t)
    \/ launch_tempdir(t)
    \/ launch_prepare(t)
    \/ \E e \in BOOLEAN : launch_run(t, e)
    \/ launch_spawn(t)
    \/ launch_except(t)
    \/ \E e \in BOOLEAN, s \in {"exited", "dead"} : monitor_first_check(t, e, s)
    \/ \E e \in BOOLEAN : monitor_check(t, e)
    \/ \E e \in BOOLEAN, n \in 0..MaxPages : monitor_logs(t, e, n)
    \/ \E e \in BOOLEAN : monitor_except(t, e)
    \/ \E e \in BOOLEAN, c \in {0, 1} : completion_wait(t, e, c)
    \/ \E w, e \in BOOLEAN : completion_save(t, w, e)
    \/ completion_complete(t)
    \/ completion_except(t)
    \/ \E e \in BOOLEAN : completion_finally(t, e)
    \/ upload_begin(t)
    \/ \E e \in BOOLEAN : upload_client(t, e)
    \/ \E e \in BOOLEAN : upload_file(t, e)
    \/ \E e \in BOOLEAN : upload_public(t, e)
    \/ upload_except(t)

Fairness ==
    /\ \A j \in JobIds : WF_vars(create_archive_resume(j))
    /\ \A t \in TaskIds : WF_vars(TaskStep(t))
    /\ \A t \in TaskIds : WF_vars(container_exit(t))

LiveSpec == Init /\ [][Next]_vars /\ Fairness

(***************************************************************************)
(* File serving: GET/HEAD /api/serve/{job_id}/{filename}.  The handler     *)
(* reads one file and the Range header of the request and writes nothing,  *)
(* so it is studied on its own: ServeSpec starts with some file under      *)
(* ARCHIVE_DIR and a request, and serve_archive answers it.                *)
(*                                                                         *)
(* A header value is a sequence of tokens: the unit "bytes=", decimal      *)
(* digits, "-" and the letter "x".  The bytes of a file of size n are      *)
(* 1, 2, .., n, so that every range of the file has a content of its own.  *)
(***************************************************************************)
DecimalDigits == <<"0", "1", "2", "3", "4", "5", "6", "7", "8", "9">>

Digits == {DecimalDigits[d + 1] : d \in 0..MaxDigit}

HeaderTokens == {"bytes=", "-", "x"} \cup Digits

RECURSIVE SeqsUpTo(_, _)
SeqsUpTo(S, n) ==
    IF n = 0 THEN {<<>>}
    ELSE LET shorter == SeqsUpTo(S, n - 1)
         IN  shorter \cup {Append(s, c) : s \in {r \in shorter : Len(r) = n - 1}, c \in S}

\* request.headers.get("range"): None and "" are both the empty sequence
RangeHeaders == SeqsUpTo(HeaderTokens, MaxHeader)

Methods == {"GET", "HEAD"}

FileOfSize(n) == [exists |-> TRUE, content |-> [i \in 1..n |-> i]]

NoFile == [exists |-> FALSE, content |-> <<>>]

StoredFiles == {NoFile} \cup {FileOfSize(n) : n \in 0..MaxFileSize}

NoRequest == [method |-> "NONE", range |-> <<>>]

NoContentRange == [kind |-> "absent", first |-> 0, last |-> 0, size |-> 0]

NoResponse ==
    [status_code |-> 0, content_length |-> <<>>, content_range |-> NoContentRange,
     body |-> <<>>]

\* os.path.getsize(file_path)
getsize(file) == Len(file.content)

\* range_header.replace("bytes=", "")
replace_bytes(range_header) == SelectSeq(range_header, LAMBDA c : c # "bytes=")

\* s.split("-"): the pieces between the dashes, [""] for the empty string
RECURSIVE split(_)
split(s) ==
    IF \A i \in 1..Len(s) : s[i] # "-"
    THEN <<s>>
    ELSE LET i == CHOOSE k \in 1..Len(s) :
                      s[k] = "-" /\ \A m \in 1..(k - 1) : s[m] # "-"
         IN  <<SubSeq(s, 1, i - 1)>> \o split(SubSeq(s, i + 1, Len(s)))

\* int(s) returns a value; otherwise it raises ValueError
IsInt(s) == s # <<>> /\ \A i \in 1..Len(s) : s[i] \in Digits

DigitValue(c) == CHOOSE d \in 0..9 : DecimalDigits[d + 1] = c

RECURSIVE int(_)
int(s) ==
    IF s = <<>> THEN 0
    ELSE 10 * int(SubSeq(s, 1, Len(s) - 1)) + DigitValue(s[Len(s)])

\* the try block up to the validation finishes without ValueError or IndexError
RangeParses(range_match) ==
    /\ range_match[1] # <<>> => IsInt(range_match[1])
    /\ Len(range_match) >= 2
    /\ range_match[2] # <<>> => IsInt(range_match[2])

RangeStart(range_match) ==
    IF range_match[1] # <<>> THEN int(range_match[1]) ELSE 0

RangeEnd(range_match, file_size) ==
    IF range_match[2] # <<>> THEN int(range_match[2]) ELSE file_size - 1

RangeInvalidLoose(start, end, file_size) == start >= file_size \/ start > end

\* if start >= file_size or end >= file_size or start > end
RangeInvalid(start, end, file_size) ==
    start >= file_size \/ end >= file_size \/ start > end

\* f.seek(pos) and the f.read calls that ask for k bytes in all: read stops
\* at the end of the file
ReadAt(file, pos, k) ==
    SubSeq(file.content, pos + 1,
           IF pos + k <= Len(file.content) THEN pos + k ELSE Len(file.content))

\* raise HTTPException(status_code=404): the body is the error detail
NotFoundResponse ==
    [status_code |-> 404, content_length |-> <<>>, content_range |-> NoContentRange,
     body |-> <<>>]

\* Response(headers=headers) with Content-Length set, no body
HeadResponse(file_size) ==
    [status_code |-> 200, content_length |-> <<file_size>>,
     content_range |-> NoContentRange, body |-> <<>>]

\* Response(status_code=416) with Content-Range: bytes */file_size
UnsatisfiableResponse(file_size) ==
    [status_code |-> 416, content_length |-> <<>>,
     content_range |-> [kind |-> "unsatisfied", first |-> 0, last |-> 0,
                        size |-> file_size],
     body |-> <<>>]

\* StreamingResponse(stream_range(), status_code=206)
PartialResponse(file, start, end) ==
    LET content_length == end - start + 1
    IN  [status_code |-> 206, content_length |-> <<content_length>>,
         content_range |-> [kind |-> "range", first |-> start, last |-> end,
                            size |-> getsize(file)],
         body |-> ReadAt(file, start, content_length)]

\* StreamingResponse(stream_file()): the whole file
FullResponse(file) ==
    [status_code |-> 200, content_length |-> <<getsize(file)>>,
     content_range |-> NoContentRange, body |-> ReadAt(file, 0, getsize(file))]

\* the response of serve_archive to a request for the file
ServeResponse(file, method, range_header) ==
    IF ~file.exists THEN NotFoundResponse
    ELSE IF method = "HEAD" THEN HeadResponse(getsize(file))
    ELSE LET file_size == getsize(file)
             range_match == split(replace_bytes(range_header))
         IN  IF range_header # <<>> /\ RangeParses(range_match)
             THEN LET start == RangeStart(range_match)
                      end == RangeEnd(range_match, file_size)
                  IN  IF RangeInvalid(start, end, file_size)
                      THEN UnsatisfiableResponse(file_size)
                      ELSE PartialResponse(file, start, end)
             ELSE FullResponse(file)

\* one request that waits for its answer is answered
serve_archive ==
    /\ serve_request # NoRequest
    /\ serve_response = NoResponse
    /\ serve_response' =
          ServeResponse(archive_file, serve_request.method, serve_request.range)
    /\ UNCHANGED <<archive_file, serve_request, docker_client, gcs_env, db, next_id,
                   creating, tasks, spawned, archives, blobs, delete_results>>

\* some file under ARCHIVE_DIR, or none, and a request that has arrived
ServeInit ==
    /\ docker_client = FALSE
    /\ gcs_env = FALSE
    /\ db = <<>>
    /\ next_id = 0
    /\ creating = {}
    /\ tasks = <<>>
    /\ spawned = 0
    /\ archives = {}
    /\ blobs = {}
    /\ delete_results = <<>>
    /\ archive_file \in StoredFiles
    /\ serve_request \in [method : Methods, range : RangeHeaders]
    /\ serve_response = NoResponse

ServeNext == serve_archive

ServeSpec == ServeInit /\ [][ServeNext]_vars

(***************************************************************************)
(* Vocabulary of the properties                                            *)
(***************************************************************************)
\* a background task of job j that has not returned
ActiveTask(j) ==
    \E t \in DOMAIN tasks : tasks[t].job = j /\ tasks[t].pc # "done"

\* crawl launches of job j whose container is running
LiveContainers(j) ==
    {t \in DOMAIN tasks : tasks[t].job = j /\ tasks[t].cstatus = "running"}

\* crawl launches of job j whose supervisor loop is alive
SupervisorPcs ==
    {"s_sleep0", "s_check", "s_logs", "s_except", "s_sleep",
     "h_wait", "h_find", "h_complete", "h_except", "h_finally"}

Supervisors(j) ==
    {t \in DOMAIN tasks : tasks[t].job = j /\ tasks[t].pc \in SupervisorPcs}

\* this step is retry_archive going through for job j
RetryAccepted(j) == retry_archive_code(db, j) = 200 /\ retry_archive(j)

\* the crawl launches registered by this step
NewTasks == SubSeq(tasks', Len(tasks) + 1, Len(tasks'))

(***************************************************************************)
(* C1  Every change of a job's status is a transition of the lifecycle     *)
(* table of section 4.1, and a new row starts in started.                  *)
(***************************************************************************)
LifecycleTable ==
    {<<"started", "crawling">>,
     <<"crawling", "preparing">>,
     <<"crawling", "completed">>, <<"preparing", "completed">>,
     <<"crawling", "failed">>, <<"preparing", "failed">>,
     <<"started", "stopped">>, <<"crawling", "stopped">>,
     <<"preparing", "stopped">>, <<"uploading_gcs", "stopped">>,
     <<"completed", "uploading_gcs">>,
     <<"uploading_gcs", "completed">>,
     <<"uploading_gcs", "gcs_upload_failed">>,
     <<"failed", "started">>, <<"gcs_upload_failed", "started">>,
     <<"stopped", "started">>}

C1_LifecycleTable ==
    [][\A j \in JobIds :
          /\ (HasJob(db, j) /\ HasJob(db', j) /\ db'[j].status # db[j].status)
                => <<db[j].status, db'[j].status>> \in LifecycleTable
          /\ (~HasJob(db, j) /\ HasJob(db', j)) => db'[j].status = "started"]_vars

(***************************************************************************)
(* C2  Liveness: under fair scheduling every job that exists ends up, and  *)
(* stays, in one of completed, failed, stopped, gcs_upload_failed once the *)
(* requests have stopped coming.                                           *)
(***************************************************************************)
Settled(j) == HasJob(db, j) => db[j].status \in TerminalStatuses

C2_EventuallyTerminal == \A j \in JobIds : <>[]Settled(j)

\* a crawl that failed has left its job in failed, with nothing running for it
C2_Witness ==
    \E j \in JobIds :
        /\ HasJob(db, j)
        /\ db[j].status = "failed"
        /\ db[j].progress = 0
        /\ spawned > 0
        /\ ~ActiveTask(j)
        /\ j \notin creating

(***************************************************************************)
(* C3  Quiescence, as claimed: a job with no crawl launcher task, no       *)
(* supervisor and no Archive Publisher task pending or running is not in   *)
(* started, crawling, preparing or uploading_gcs.                          *)
(***************************************************************************)
C3_Quiescence_Claimed ==
    \A j \in JobIds :
        (HasJob(db, j) /\ ~ActiveTask(j)) => db[j].status \notin ActiveStatuses

(***************************************************************************)
(* C3, amended: ... and no create request for the job still in progress    *)
(* (create_archive sleeps between the insert and the registration of the   *)
(* crawl launch).                                                          *)
(***************************************************************************)
C3_Quiescence ==
    \A j \in JobIds :
        (HasJob(db, j) /\ ~ActiveTask(j) /\ j \notin creating)
            => db[j].status \notin ActiveStatuses

\* a job whose tasks have all returned, after a crawl and an upload
C3_Witness ==
    \E j \in JobIds :
        /\ HasJob(db, j)
        /\ ~ActiveTask(j)
        /\ j \notin creating
        /\ spawned >= 2
        /\ db[j].status = "gcs_upload_failed"

(***************************************************************************)
(* C4  Each job has at most one live crawl container and at most one       *)
(* supervisor loop.                                                        *)
(***************************************************************************)
C4_OneCrawlPerJob ==
    \A j \in JobIds :
        /\ Cardinality(LiveContainers(j)) <= 1
        /\ Cardinality(Supervisors(j)) <= 1

(***************************************************************************)
(* C5  Once stopped, a job's status changes only by an explicit retry (to  *)
(* started) or by the removal of the row.                                  *)
(***************************************************************************)
C5_StoppedStays ==
    [][\A j \in JobIds :
          (HasJob(db, j) /\ db[j].status = "stopped"
             /\ HasJob(db', j) /\ db'[j].status # "stopped")
          => RetryAccepted(j)]_vars

(***************************************************************************)
(* C6  A retry request for a job in started, crawling, preparing,          *)
(* uploading_gcs or completed is rejected.                                 *)
(***************************************************************************)
RetryableStatuses == {"failed", "gcs_upload_failed", "stopped"}

C6_RetryOnlyAfterFailure ==
    \A j \in JobIds :
        (HasJob(db, j) /\ db[j].status \notin RetryableStatuses)
            => retry_archive_code(db, j) # 200

(***************************************************************************)
(* C7  An accepted retry of a failed job sets status started, progress 0,  *)
(* completed_at, archive_path and local_path null, keeps job_id and url,   *)
(* and registers exactly one crawl launch for the job.                     *)
(***************************************************************************)
C7_RetryResets ==
    [][\A j \in JobIds :
          (HasJob(db, j) /\ db[j].status = "failed" /\ RetryAccepted(j))
          => /\ HasJob(db', j)
             /\ DOMAIN db' = DOMAIN db
             /\ db'[j].status = "started"
             /\ db'[j].progress = 0
             /\ db'[j].completed_at = NULL
             /\ db'[j].archive_path = NULL
             /\ db'[j].local_path = NULL
             /\ db'[j].url = db[j].url
             /\ NewTasks = <<NewCrawlTask(j, db[j].url)>>
             /\ SubSeq(tasks', 1, Len(tasks)) = tasks]_vars

\* a job retried after its first launch failed to start a container (that
\* launch has returned and left its scratch directory): the row is reset, with
\* the completed_at of an earlier stop cleared, and one new launch is pending
C7_Witness ==
    \E j \in JobIds :
        /\ HasJob(db, j)
        /\ db[j].status = "started"
        /\ db[j].progress = 0
        /\ db[j].completed_at = NULL
        /\ db[j].crawler_reason = RetryUpdates.crawler_reason
        /\ spawned = 2
        /\ Len(tasks) = 2
        /\ tasks[1].job = j /\ tasks[1].pc = "done" /\ tasks[1].cstatus = "none"
        /\ tasks[2] = NewCrawlTask(j, db[j].url)

(***************************************************************************)
(* C8  Right after an accepted retry the telemetry and publish fields are  *)
(* those of a fresh job: pages_archived 0, current_depth 1, gcs_url and    *)
(* gcs_error null.                                                         *)
(***************************************************************************)
C8_RetryFreshShape ==
    [][\A j \in JobIds :
          RetryAccepted(j)
          => /\ db'[j].pages_archived = 0
             /\ db'[j].current_depth = 1
             /\ db'[j].gcs_url = NULL
             /\ db'[j].gcs_error = NULL]_vars

(***************************************************************************)
(* C9  A delete request of either kind for a job in started, crawling,     *)
(* preparing or uploading_gcs is answered 400, and no step removes the row *)
(* of a job that is in one of these statuses.                              *)
(***************************************************************************)
C9_NoDeleteWhileActive ==
    [][\A j \in JobIds :
          (HasJob(db, j) /\ db[j].status \in ActiveStatuses)
          => /\ delete_job_code(db, j) = 400
             /\ delete_archive_code(db, j) = 400
             /\ HasJob(db', j)]_vars

\* an active job whose deletion is refused, next to a job that was deleted
C9_Witness ==
    \E j, k \in JobIds :
        /\ HasJob(db, j)
        /\ db[j].status \in ActiveStatuses
        /\ delete_job_code(db, j) = 400
        /\ delete_archive_code(db, j) = 400
        /\ k <= next_id
        /\ ~HasJob(db, k)

(***************************************************************************)
(* C10  delete-archive of a job in failed, completed, gcs_upload_failed or *)
(* stopped goes through, removes the local directory and the remote object *)
(* unless that removal raises, and removes the row in either case.         *)
(***************************************************************************)
C10_DeleteBestEffort ==
    [][\A j \in JobIds :
          (HasJob(db, j) /\ db[j].status \in TerminalStatuses)
          => /\ delete_archive_code(db, j) = 200
             /\ \A le, ge \in BOOLEAN :
                   delete_archive(j, le, ge)
                   => /\ ~HasJob(db', j)
                      /\ (db[j].local_path # NULL /\ ~le)
                            => JobDirectory(db[j].local_path) \cap archives' = {}
                      /\ (db[j].gcs_url # NULL /\ ~ge)
                            => BlobOfUrl(db[j].gcs_url) \cap blobs' = {}
                      /\ delete_results'[j].errors =
                            (IF db[j].local_path # NULL /\ le THEN 1 ELSE 0)
                              + (IF db[j].gcs_url # NULL /\ ge THEN 1 ELSE 0)]_vars

\* a row removed by a delete-archive call in which an artifact removal raised
C10_Witness ==
    \E j \in DOMAIN delete_results :
        /\ delete_results[j].errors > 0
        /\ delete_results[j].database
        /\ ~HasJob(db, j)

(***************************************************************************)
(* Vocabulary of the publish properties                                    *)
(***************************************************************************)
\* this step is upload_to_gcs handling a request for job j
PublishRequest(j) == upload_to_gcs(j)

\* Archive Publisher tasks of job j that are pending or running
Publishers(j) ==
    {t \in DOMAIN tasks : tasks[t].job = j /\ tasks[t].kind = "upload"
                              /\ tasks[t].pc # "done"}

(***************************************************************************)
(* C11  A publish request for a job whose gcs_url is non-null is answered  *)
(* 400 whatever the job's status, changes no row and registers no upload.  *)
(***************************************************************************)
C11_PublishedRejected ==
    [][\A j \in JobIds :
          (HasJob(db, j) /\ db[j].gcs_url # NULL)
          => /\ upload_to_gcs_code(db, j) = 400
             /\ PublishRequest(j) => (db' = db /\ tasks' = tasks /\ spawned' = spawned)]_vars

\* a published job (completed, artifact on disk, object in the bucket) whose
\* next publish request is refused
C11_Witness ==
    \E j \in JobIds :
        /\ HasJob(db, j)
        /\ db[j].status = "completed"
        /\ db[j].local_path = LocalPath(j)
        /\ db[j].gcs_url = PublicUrl(j)
        /\ BlobName(j) \in blobs
        /\ Publishers(j) = {}
        /\ upload_to_gcs_code(db, j) = 400

(***************************************************************************)
(* C12  A publish request for a job whose local_path is null is rejected,  *)
(* changes no row and registers no upload.                                 *)
(***************************************************************************)
C12_NoArtifactRejected ==
    [][\A j \in JobIds :
          (HasJob(db, j) /\ db[j].local_path = NULL)
          => /\ upload_to_gcs_code(db, j) = 400
             /\ PublishRequest(j) => (db' = db /\ tasks' = tasks /\ spawned' = spawned)]_vars

\* a job in a status that allows publishing, never published, whose local_path
\* was reset by a retry while an upload was on its way: the request is refused
\* by the check of local_path alone
C12_Witness ==
    \E j \in JobIds :
        /\ HasJob(db, j)
        /\ db[j].status \in UploadStatuses
        /\ db[j].gcs_url = NULL
        /\ db[j].local_path = NULL
        /\ upload_to_gcs_code(db, j) = 400

(***************************************************************************)
(* C13  No duplicate uploads: a job never has more than one Archive        *)
(* Publisher task pending or running, and a publish request that arrives   *)
(* while one is pending or running is rejected.                            *)
(***************************************************************************)
C13_OnePublisherPerJob ==
    /\ \A j \in JobIds : Cardinality(Publishers(j)) <= 1
    /\ \A j \in JobIds : Publishers(j) # {} => upload_to_gcs_code(db, j) # 200

\* this step is the success step of an Archive Publisher run for job j
UploadSucceeds(j) ==
    \E t \in DOMAIN tasks :
        /\ IsAt(t, "upload", "u_public")
        /\ tasks[t].job = j
        /\ upload_public(t, FALSE)

(***************************************************************************)
(* C14  The success step of the Archive Publisher finds the job in         *)
(* uploading_gcs and writes, in one update, status completed and the       *)
(* public URL as gcs_url; url, local_path, archive_path and completed_at   *)
(* keep their values.                                                      *)
(***************************************************************************)
C14_UploadSuccess ==
    [][\A j \in JobIds :
          (HasJob(db, j) /\ UploadSucceeds(j))
          => /\ db[j].status = "uploading_gcs"
             /\ HasJob(db', j)
             /\ db'[j].status = "completed"
             /\ db'[j].gcs_url = PublicUrl(j)
             /\ db'[j].gcs_url # NULL
             /\ db'[j].url = db[j].url
             /\ db'[j].local_path = db[j].local_path
             /\ db'[j].archive_path = db[j].archive_path
             /\ db'[j].completed_at = db[j].completed_at]_vars

\* a job right after its first successful upload: completed, the URL recorded,
\* the progress still the 90 written after the transfer
C14_Witness ==
    \E j \in JobIds :
        /\ HasJob(db, j)
        /\ db[j].status = "completed"
        /\ db[j].progress = 90
        /\ db[j].gcs_url = PublicUrl(j)
        /\ db[j].gcs_error = NULL
        /\ db[j].local_path = LocalPath(j)
        /\ db[j].archive_path = Filename(j)
        /\ db[j].completed_at = Now
        /\ spawned = 2

(***************************************************************************)
(* C15  A job in gcs_upload_failed has a non-null gcs_error and a null     *)
(* gcs_url (the state every error of the Archive Publisher is said to end  *)
(* in).                                                                    *)
(***************************************************************************)
C15_UploadFailedShape ==
    \A j \in JobIds :
        (HasJob(db, j) /\ db[j].status = "gcs_upload_failed")
            => (db[j].gcs_error # NULL /\ db[j].gcs_url = NULL)

(***************************************************************************)
(* C16  A publish request for a completed job with a local artifact and no *)
(* gcs_url, while neither credentials nor bucket are configured, takes the *)
(* job to gcs_upload_failed.  A request that is answered with an error     *)
(* changes nothing, so the request has to be accepted for that.            *)
(***************************************************************************)
C16_UnconfiguredPublishFails ==
    \A j \in JobIds :
        (/\ HasJob(db, j)
         /\ db[j].status = "completed"
         /\ db[j].local_path # NULL
         /\ db[j].gcs_url = NULL
         /\ ~gcs_env
         /\ Idle)
        => upload_to_gcs_code(db, j) = 200

(***************************************************************************)
(* C17  A publish request for a job in gcs_upload_failed with local_path   *)
(* set and gcs_url null is accepted and registers one upload of the job's  *)
(* artifact, however many uploads have failed before.                      *)
(***************************************************************************)
C17_RepublishAfterFailure ==
    [][\A j \in JobIds :
          (/\ HasJob(db, j)
           /\ db[j].status = "gcs_upload_failed"
           /\ db[j].local_path # NULL
           /\ db[j].gcs_url = NULL)
          => /\ upload_to_gcs_code(db, j) = 200
             /\ PublishRequest(j)
                   => /\ tasks' = Append(tasks, NewUploadTask(j, db[j].local_path))
                      /\ db' = db]_vars

\* a second publish attempt, accepted after the first one failed, is pending
C17_Witness ==
    \E j \in JobIds :
        /\ HasJob(db, j)
        /\ db[j].status = "gcs_upload_failed"
        /\ db[j].gcs_error # NULL
        /\ db[j].gcs_url = NULL
        /\ spawned = 3
        /\ Len(tasks) = 1
        /\ tasks[1] = NewUploadTask(j, LocalPath(j))
        /\ upload_to_gcs_code(db, j) = 200

(***************************************************************************)
(* C18  gcs_url of a job changes only from null to non-null, and only in   *)
(* the success step of an Archive Publisher run for that job; no step      *)
(* changes or clears a gcs_url that is set.                                *)
(***************************************************************************)
C18_GcsUrlMonotone ==
    [][\A j \in JobIds :
          (HasJob(db, j) /\ HasJob(db', j) /\ db'[j].gcs_url # db[j].gcs_url)
          => /\ db[j].gcs_url = NULL
             /\ db'[j].gcs_url # NULL
             /\ UploadSucceeds(j)]_vars

\* a published job that was retried afterwards: the new crawl runs and the URL
\* is still there
C18_Witness ==
    \E j \in JobIds :
        /\ HasJob(db, j)
        /\ db[j].gcs_url = PublicUrl(j)
        /\ db[j].status = "crawling"
        /\ db[j].local_path = NULL
        /\ spawned = 3

(***************************************************************************)
(* C19  A successful publish clears gcs_error: the success step of the     *)
(* Archive Publisher leaves the job with gcs_url set and gcs_error null.   *)
(***************************************************************************)
C19_SuccessClearsError ==
    [][\A j \in JobIds :
          (HasJob(db, j) /\ UploadSucceeds(j))
          => (db'[j].gcs_url # NULL /\ db'[j].gcs_error = NULL)]_vars

\* this step is handle_container_completion finding a non-zero exit code, or
\* exit code 0 and no .wacz file, for a crawl of job j
CrawlExitsWithoutArtifact(j) ==
    \E t \in DOMAIN tasks :
        /\ tasks[t].job = j
        /\ \/ IsAt(t, "crawl", "h_wait") /\ completion_wait(t, FALSE, 1)
           \/ IsAt(t, "crawl", "h_find") /\ \E e \in BOOLEAN : completion_save(t, FALSE, e)

(***************************************************************************)
(* C20  When a crawl's container exits non-zero, or exits 0 leaving no     *)
(* artifact, the job is left failed with progress 0 and local_path null.   *)
(***************************************************************************)
C20_BadExitFails ==
    [][\A j \in JobIds :
          (HasJob(db, j) /\ CrawlExitsWithoutArtifact(j))
          => /\ db'[j].status = "failed"
             /\ db'[j].progress = 0
             /\ db'[j].local_path = NULL]_vars

(***************************************************************************)
(* Vocabulary of the crawl properties                                      *)
(***************************************************************************)
\* this step is handle_container_completion of a crawl of job j deciding the
\* outcome after exit code 0 and a .wacz file found in the scratch directory
ArtifactOutcome(j) ==
    \E t \in DOMAIN tasks :
        /\ tasks[t].job = j
        /\ tasks[t].kind = "crawl"
        /\ tasks[t].wacz
        /\ \/ IsAt(t, "crawl", "h_complete") /\ completion_complete(t)
           \/ IsAt(t, "crawl", "h_except") /\ completion_except(t)

\* this step is the update that follows a successful copy of the artifact
ArtifactSaved(j) ==
    \E t \in DOMAIN tasks :
        /\ tasks[t].job = j
        /\ IsAt(t, "crawl", "h_complete")
        /\ completion_complete(t)

\* the row of a job that has just completed
CompletedRow(j) ==
    /\ HasJob(db', j)
    /\ db'[j].status = "completed"
    /\ db'[j].progress = 100
    /\ db'[j].local_path # NULL
    /\ db'[j].archive_path # NULL
    /\ db'[j].completed_at # NULL
    /\ j \in archives

LaunchFails(j) ==
    \E t \in DOMAIN tasks :
        /\ tasks[t].job = j
        /\ IsAt(t, "crawl", "l_except")
        /\ launch_except(t)

(***************************************************************************)
(* C22  When the crawl launcher raises after it has marked the job         *)
(* crawling, the job is left failed with progress 0, the launch returns    *)
(* and no supervisor is started for it.                                    *)
(***************************************************************************)
C22_LaunchFailure ==
    [][/\ \A t \in DOMAIN tasks :
             (IsAt(t, "crawl", "l_run") /\ launch_run(t, TRUE))
             => /\ tasks'[t].pc = "l_except"
                /\ tasks'[t].cstatus = "none"
       /\ \A j \in JobIds :
             LaunchFails(j)
             => /\ HasJob(db, j) => (db'[j].status = "failed" /\ db'[j].progress = 0)
                /\ \A u \in DOMAIN tasks' :
                      tasks'[u].pc \in SupervisorPcs
                      => \E v \in DOMAIN tasks : tasks[v] = tasks'[u]
                /\ Cardinality(Supervisors(j)') = Cardinality(Supervisors(j))]_vars

\* a job whose only launch could not start its container: failed, progress 0,
\* the launch has returned and there is no container and no supervisor
C22_Witness ==
    \E j \in JobIds :
        /\ HasJob(db, j)
        /\ db[j].status = "failed"
        /\ db[j].progress = 0
        /\ spawned = 1
        /\ Len(tasks) = 1
        /\ tasks[1].job = j
        /\ tasks[1].pc = "done"
        /\ tasks[1].cstatus = "none"
        /\ Supervisors(j) = {}

(***************************************************************************)
(* C23  A stop request is accepted exactly for the statuses started,       *)
(* crawling, preparing, uploading_gcs and answered 400 for every other     *)
(* one; an accepted stop sets status stopped and completed_at to a time    *)
(* and changes nothing else, a rejected one changes nothing.               *)
(***************************************************************************)
C23_StopContract ==
    [][\A j \in JobIds :
          HasJob(db, j)
          => /\ (stop_job_code(db, j) = 200) <=> (db[j].status \in ActiveStatuses)
             /\ (db[j].status \notin ActiveStatuses) => stop_job_code(db, j) = 400
             /\ (stop_job(j) /\ stop_job_code(db, j) = 200)
                   => /\ db' = [db EXCEPT ![j].status = "stopped", ![j].completed_at = Now]
                      /\ db'[j].completed_at # NULL
                      /\ UNCHANGED <<tasks, spawned, creating, archives, blobs>>
             /\ (stop_job(j) /\ stop_job_code(db, j) # 200) => db' = db]_vars

\* a job stopped while its crawl was running: the progress and the other
\* fields are those the crawl had written, and a second stop is refused
C23_Witness ==
    \E j \in JobIds :
        /\ HasJob(db, j)
        /\ db[j].status = "stopped"
        /\ db[j].completed_at = Now
        /\ db[j].progress = 12
        /\ db[j].pages_archived = 1
        /\ db[j].local_path = NULL
        /\ stop_job_code(db, j) = 400

(***************************************************************************)
(* C24  An accepted create request inserts exactly one row, under a job id *)
(* that was never used before, with status started, progress 0 and         *)
(* completed_at, archive_path, local_path, gcs_url null; the other rows    *)
(* are untouched; the response names that job id and status started.       *)
(***************************************************************************)
C24_CreateInserts ==
    [][/\ DOMAIN db \subseteq 1..next_id
       /\ (create_archive /\ create_archive_code = 200)
             => LET j == next_id + 1
                IN  /\ ~HasJob(db, j)
                    /\ DOMAIN db' = DOMAIN db \cup {j}
                    /\ \A k \in DOMAIN db : db'[k] = db[k]
                    /\ db'[j].status = "started"
                    /\ db'[j].progress = 0
                    /\ db'[j].completed_at = NULL
                    /\ db'[j].archive_path = NULL
                    /\ db'[j].local_path = NULL
                    /\ db'[j].gcs_url = NULL
                    /\ creating' = creating \cup {j}
       /\ \A j \in JobIds :
             create_archive_resume(j)
             => /\ j \in creating
                /\ create_archive_response(j).job_id = j
                /\ create_archive_response(j).status = "started"
                /\ db' = db]_vars

\* a second job just inserted, its request still in its sleep, next to the
\* row of the first job, which has moved on
C24_Witness ==
    /\ next_id = 2
    /\ 2 \in creating
    /\ HasJob(db, 1)
    /\ db[1].status # "started"
    /\ HasJob(db, 2)
    /\ db[2].status = "started"
    /\ db[2].progress = 0
    /\ db[2].gcs_url = NULL
    /\ db[2].url = UrlOf(2)

(***************************************************************************)
(* C25  Neither create_archive nor the crawl launch waits for the crawl:   *)
(* the create request only registers the launch (which has not started     *)
(* when the response goes out), the container is started detached, and the *)
(* launch goes on and returns to the event loop whether or not its         *)
(* container is still running.                                             *)
(***************************************************************************)
C25_NoWaitForCrawl ==
    [][/\ \A j \in JobIds :
             create_archive_resume(j)
             => tasks' = Append(tasks, NewCrawlTask(j, UrlOf(j)))
       /\ \A t \in DOMAIN tasks :
             /\ IsAt(t, "crawl", "l_started") => ENABLED launch_spawn(t)
             /\ (IsAt(t, "crawl", "l_run") /\ launch_run(t, FALSE))
                   => (tasks'[t].cstatus = "running" /\ tasks'[t].pc = "l_started")
             /\ (IsAt(t, "crawl", "l_started") /\ launch_spawn(t))
                   => /\ tasks'[t].pc \in YieldPcs
                      /\ tasks'[t].cstatus = tasks[t].cstatus]_vars

\* a second job is being created while the container of the first job is
\* running and its supervisor sleeps
C25_Witness ==
    /\ Idle
    /\ Len(tasks) = 1
    /\ tasks[1].job = 1
    /\ tasks[1].cstatus = "running"
    /\ tasks[1].pc \in {"s_sleep0", "s_sleep"}
    /\ 2 \in creating

\* this step is the update of a successful crawl completion of job j
CrawlCompletes(j) ==
    \E t \in DOMAIN tasks :
        /\ tasks[t].job = j
        /\ IsAt(t, "crawl", "h_complete")
        /\ tasks[t].wacz
        /\ tasks[t].exit_code = 0
        /\ completion_complete(t)

C27_ScratchRemoved ==
    \A t \in DOMAIN tasks :
        (tasks[t].kind = "crawl" /\ tasks[t].pc = "done") => ~tasks[t].temp_dir

(***************************************************************************)
(* C28  An error while polling the container (its status, its logs, the    *)
(* telemetry update) does not decide the outcome of the job: when the      *)
(* container is found stopped after such an error, the outcome is left to  *)
(* the check of the exit code and the artifact.                            *)
(***************************************************************************)
C28_PollErrorNotFatal ==
    [][\A t \in DOMAIN tasks :
          (/\ IsAt(t, "crawl", "s_except")
           /\ tasks[t].cstatus = "stopped"
           /\ monitor_except(t, FALSE))
          => /\ db' = db
             /\ t \in DOMAIN tasks'
             /\ tasks'[t].pc = "h_wait"]_vars

\* the rows of the store whose job_id, url and status are non-empty
ValidRows == {JobDict(db, j) : j \in {k \in DOMAIN db : db[k].url \notin {NULL, ""}
                                                           /\ db[k].status \notin {NULL, ""}}}

(***************************************************************************)
(* C29  The message of a poll of the Status Broadcaster is the content of  *)
(* the store at that time, restricted to the rows with non-empty job_id,   *)
(* url and status: every such row is in it with the values the store       *)
(* holds, whoever wrote them, and nothing else is.                         *)
(***************************************************************************)
C29_BroadcastIsStore ==
    /\ event_stream(db).jobs = ValidRows
    /\ \A j \in DOMAIN db :
          \E job \in event_stream(db).jobs :
              /\ job.job_id = ToString(j)
              /\ \A f \in DOMAIN db[j] : job[f] = db[j][f]
    /\ Cardinality(event_stream(db).jobs) = Cardinality(DOMAIN db)

\* two jobs, one stopped by its user and one failed in its launch: the
\* message of a poll made now shows both, each with its status
C29_Witness ==
    /\ HasJob(db, 1)
    /\ HasJob(db, 2)
    /\ db[1].status = "stopped"
    /\ db[2].status = "failed"
    /\ \E a, b \in event_stream(db).jobs :
          /\ a.job_id = "1" /\ a.status = "stopped"
          /\ b.job_id = "2" /\ b.status = "failed"

\* this step is a handler call for job j or a step of a background task or
\* a container of job j
StepOf(j) ==
    \/ create_archive /\ j = next_id + 1
    \/ create_archive_resume(j)
    \/ retry_archive(j)
    \/ stop_job(j)
    \/ delete_job(j)
    \/ \E le, ge \in BOOLEAN : delete_archive(j, le, ge)
    \/ upload_to_gcs(j)
    \/ \E t \in DOMAIN tasks : tasks[t].job = j /\ (TaskStep(t) \/ container_exit(t))

\* the jobs whose row this step has written, inserted or removed
RowsChanged ==
    {j \in JobIds : IF HasJob(db, j) /\ HasJob(db', j)
                     THEN db'[j] # db[j]
                     ELSE HasJob(db, j) # HasJob(db', j)}

RequestHasEffect(j) ==
    \/ ENABLED (retry_archive(j) /\ vars' # vars)
    \/ ENABLED (stop_job(j) /\ vars' # vars)
    \/ ENABLED (delete_job(j) /\ vars' # vars)
    \/ ENABLED (\E le, ge \in BOOLEAN : delete_archive(j, le, ge) /\ vars' # vars)
    \/ ENABLED (upload_to_gcs(j) /\ vars' # vars)

(***************************************************************************)
(* C31, as claimed: a retry, stop, delete, delete-archive or publish       *)
(* request for a job id that is not in the store is answered 404 and       *)
(* changes nothing.                                                        *)
(***************************************************************************)
C31_UnknownJob_Claimed ==
    \A j \in JobIds :
        ~HasJob(db, j)
        => /\ retry_archive_code(db, j) = 404
           /\ stop_job_code(db, j) = 404
           /\ delete_job_code(db, j) = 404
           /\ delete_archive_code(db, j) = 404
           /\ upload_to_gcs_code(db, j) = 404
           /\ ~RequestHasEffect(j)

(***************************************************************************)
(* C31, amended: ... except that a retry request made while the Docker     *)
(* client is unavailable is answered 503, whether the job exists or not.   *)
(***************************************************************************)
C31_UnknownJob ==
    \A j \in JobIds :
        ~HasJob(db, j)
        => /\ retry_archive_code(db, j) = (IF docker_client THEN 404 ELSE 503)
           /\ stop_job_code(db, j) = 404
           /\ delete_job_code(db, j) = 404
           /\ delete_archive_code(db, j) = 404
           /\ upload_to_gcs_code(db, j) = 404
           /\ ~RequestHasEffect(j)

\* the id of a job that was deleted, next to a job that is still there and
\* for which a request would go through
C31_Witness ==
    \E j, k \in JobIds :
        /\ j <= next_id
        /\ ~HasJob(db, j)
        /\ retry_archive_code(db, j) = 404
        /\ upload_to_gcs_code(db, j) = 404
        /\ HasJob(db, k)
        /\ retry_archive_code(db, k) = 200
        /\ Idle

C33_CompletedAtTerminal ==
    [][/\ StopUpdates.status = "stopped" /\ StopUpdates.completed_at # NULL
       /\ "completed_at" \notin DOMAIN FailedUpdates
       /\ "completed_at" \notin DOMAIN UploadFailedUpdates
       /\ \A j \in JobIds :
             /\ "completed_at" \notin DOMAIN UploadedUpdates(j)
             /\ (~HasJob(db, j) /\ HasJob(db', j)) => db'[j].completed_at = NULL
             /\ (HasJob(db, j) /\ HasJob(db', j)
                    /\ db'[j].completed_at # db[j].completed_at)
                   => IF db'[j].completed_at = NULL
                      THEN RetryAccepted(j)
                      ELSE db'[j].status \in {"completed", "stopped"}
             /\ (HasJob(db', j) /\ RetryAccepted(j)) => db'[j].completed_at = NULL
             /\ (HasJob(db, j) /\ HasJob(db', j)
                    /\ db'[j].status # db[j].status
                    /\ db'[j].status \in ActiveStatuses)
                   => db'[j].completed_at \in {NULL, db[j].completed_at}]_vars

\* a job stopped before its launch had started: the stop wrote the time
C33_Witness ==
    \E j \in JobIds :
        /\ HasJob(db, j)
        /\ db[j].status = "stopped"
        /\ db[j].progress = 0
        /\ db[j].completed_at = Now
        /\ spawned = 1
        /\ tasks = <<NewCrawlTask(j, db[j].url)>>

(***************************************************************************)
(* C34  The progress of every job is an integer in 0..100; the progress    *)
(* the supervisor writes while the container runs is                       *)
(* min(10 + 2 * pages_archived, 80), a value in 10..80, however many of    *)
(* the log lines of a poll are "Page Finished" lines.                      *)
(***************************************************************************)
C34_ProgressRange ==
    /\ \A p \in 0..LogTail :
          /\ CrawlProgress(p) = (IF 10 + 2 * p <= 80 THEN 10 + 2 * p ELSE 80)
          /\ CrawlProgress(p) \in 10..80
    /\ [][
          /\ \A j \in DOMAIN db : db[j].progress \in 0..100
          /\ \A k \in DOMAIN db' : db'[k].progress \in 0..100
          /\ \A t \in DOMAIN tasks, n \in 1..MaxPages :
                (IsAt(t, "crawl", "s_logs") /\ HasJob(db, tasks[t].job)
                   /\ monitor_logs(t, FALSE, n))
                => /\ db'[tasks[t].job].progress
                         = CrawlProgress(db'[tasks[t].job].pages_archived)
                   /\ db'[tasks[t].job].progress \in 10..80
       ]_vars

\* a running crawl whose supervisor has counted a page
C34_Witness ==
    \E j \in JobIds :
        /\ HasJob(db, j)
        /\ db[j].status = "crawling"
        /\ db[j].pages_archived = 1
        /\ db[j].progress = CrawlProgress(1)
        /\ \E t \in DOMAIN tasks :
              tasks[t].job = j /\ tasks[t].pc = "s_sleep" /\ tasks[t].pages = 1

(***************************************************************************)
(* C35  A job whose status is completed has progress 100.                  *)
(***************************************************************************)
C35_CompletedIsFull ==
    \A j \in JobIds :
        (HasJob(db, j) /\ db[j].status = "completed") => db[j].progress = 100

(***************************************************************************)
(* C36  A job whose status is completed has non-null local_path and        *)
(* archive_path.                                                           *)
(***************************************************************************)
C36_CompletedHasPaths ==
    \A j \in JobIds :
        (HasJob(db, j) /\ db[j].status = "completed")
            => (db[j].local_path # NULL /\ db[j].archive_path # NULL)

(***************************************************************************)
(* C37  When an Archive Publisher task writes uploading_gcs, what the      *)
(* publish request had checked still holds: the row exists, its status is  *)
(* completed or gcs_upload_failed, its gcs_url is null and its local_path  *)
(* is the path the task was given.                                         *)
(***************************************************************************)
C37_GuardsStillHold ==
    [][\A t \in DOMAIN tasks :
          (IsAt(t, "upload", "pending") /\ upload_begin(t))
          => /\ HasJob(db, tasks[t].job)
             /\ db[tasks[t].job].status \in UploadStatuses
             /\ db[tasks[t].job].gcs_url = NULL
             /\ db[tasks[t].job].local_path = tasks[t].path]_vars

(***************************************************************************)
(* C38  The success flag of the delete-archive response is true exactly    *)
(* when the row was removed and no artifact removal raised; so it is true  *)
(* for a job with neither a local artifact nor a remote copy.              *)
(***************************************************************************)
C38_SuccessFlag ==
    \A j \in DOMAIN delete_results :
        DeleteSuccess(delete_results[j])
            <=> (delete_results[j].database /\ delete_results[j].errors = 0)

(***************************************************************************)
(* C39  A job removed by a delete request stays removed: its row does not  *)
(* come back, and after a delete-archive whose removals went through the   *)
(* durable storage holds no artifact under its id, whatever a supervisor   *)
(* or publisher still running for it does.                                 *)
(***************************************************************************)
C39_DeletedStaysGone ==
    \A j \in DOMAIN delete_results :
        /\ ~HasJob(db, j)
        /\ delete_results[j].errors = 0 => j \notin archives

(***************************************************************************)
(* C40  A GET for a stored file of size n with the Range header            *)
(* bytes=s-e: if 0 <= s <= e < n the answer is 206 with Content-Range      *)
(* s-e/n, Content-Length e-s+1 and exactly the bytes s..e; if s >= n,      *)
(* e >= n or s > e the answer is 416; if a bound is not an integer the     *)
(* answer is the full file, 200 with Content-Length n.                     *)
(***************************************************************************)
\* the header reads bytes=<first>-<last>, both bounds written out
IsRangeSpec(h) ==
    /\ Len(h) >= 4
    /\ h[1] = "bytes="
    /\ \A i \in 2..Len(h) : h[i] # "bytes="
    /\ Cardinality({i \in 1..Len(h) : h[i] = "-"}) = 1
    /\ h[2] # "-"
    /\ h[Len(h)] # "-"

DashOf(h) == CHOOSE i \in 1..Len(h) : h[i] = "-"

FirstBound(h) == SubSeq(h, 2, DashOf(h) - 1)

LastBound(h) == SubSeq(h, DashOf(h) + 1, Len(h))

\* the bytes s..e of a file whose bytes are numbered from 0
BytesOf(file, s, e) == [i \in 1..(e - s + 1) |-> file.content[s + i]]

C40_RangeRequests ==
    LET h == serve_request.range
        n == Len(archive_file.content)
        r == serve_response
    IN  (/\ r # NoResponse
         /\ serve_request.method = "GET"
         /\ archive_file.exists
         /\ IsRangeSpec(h))
        => IF IsInt(FirstBound(h)) /\ IsInt(LastBound(h))
           THEN LET s == int(FirstBound(h))
                    e == int(LastBound(h))
                IN  /\ (0 <= s /\ s <= e /\ e < n)
                          => /\ r.status_code = 206
                             /\ r.content_range =
                                   [kind |-> "range", first |-> s, last |-> e, size |-> n]
                             /\ r.content_length = <<e - s + 1>>
                             /\ r.body = BytesOf(archive_file, s, e)
                    /\ (s >= n \/ e >= n \/ s > e) => r.status_code = 416
           ELSE /\ r.status_code = 200
                /\ r.content_length = <<n>>
                /\ r.content_range.kind = "absent"
                /\ r.body = archive_file.content

\* bytes 1..2 of a three-byte file were asked for and sent
C40_Witness ==
    /\ archive_file = FileOfSize(3)
    /\ serve_request = [method |-> "GET", range |-> <<"bytes=", "1", "-", "2">>]
    /\ serve_response.status_code = 206
    /\ serve_response.body = <<2, 3>>

====
